---------------------------- MODULE Spec2Model ----------------------------
(***************************************************************************)
(* Appointment scheduling and move-offer lifecycle of the dental-practice  *)
(* assistant backend (apps/api).                                           *)
(*                                                                         *)
(* Instants are naive datetimes counted in minutes from Monday 00:00 of    *)
(* the first modelled week, so weekday() of a day number d is d % 7 with   *)
(* 0 = Monday.  UUIDs are short strings; a fresh uuid4() appointment id is *)
(* the index of the new row in the appointments table.                     *)
(***************************************************************************)
EXTENDS Integers, Sequences, FiniteSets, TLC

VARIABLES
    appts,      \* appointments table: sequence of rows, the index is the id
    ret,        \* outcome of the last completed request
    bk,         \* in-flight booking requests (one per concurrent caller)
    offers,     \* move_offers table: sequence of rows, the index is the id
    now,        \* wall clock read by datetime.now(), in days in the offer specifications
    sw,         \* in-flight expire_old_offers runs (one per concurrent caller)
    procs       \* procedures table (the catalog): code |-> row

vars == <<appts, ret, bk, offers, now, sw, procs>>

None == "None"           \* an absent optional string field
NoTime == 0 - 1          \* an absent optional datetime field
BadRange == <<>>         \* a date_range string that does not parse

----------------------------------------------------------------------------
(* Bounds of the model *)

MaxAppts == 2       \* rows the appointments table may hold
MaxOffers == 2      \* rows the move_offers table may hold
MaxTime == 3        \* last clock value of the offer specifications

----------------------------------------------------------------------------
(* Reference data: the rows the requests are checked against *)

AppointmentStatus == {"BOOKED", "CANCELLED", "OFFERING_MOVE", "COMPLETED", "NO_SHOW"}

MoveOfferStatus == {"PENDING", "ACCEPTED", "DECLINED", "EXPIRED"}

\* clinics table; c2 has no active dentist
Clinic == {"c1", "c2"}

\* dentists table: id |-> clinic_id, is_active
Dentist == [d \in {"d1", "d2", "d3", "d4"} |->
              [clinic_id |-> IF d = "d4" THEN "c2" ELSE "c1",
               is_active |-> (d \in {"d1", "d2"})]]

\* order in which the dentists query returns the rows
DentistOrder == <<"d1", "d2", "d3", "d4">>

Patient == {"p1", "p2"}

AgentSession == [s \in {"s1"} |-> [clinic_id |-> "c1"]]

\* procedures table as seeded: code |-> name, default_duration_mins, base_value
Procedure == [c \in {"D1110", "D2710", "D6010"} |->
                IF c = "D1110"
                THEN [name |-> "Prophylaxis", default_duration_mins |-> 30,
                      base_value |-> 150]
                ELSE IF c = "D2710"
                THEN [name |-> "Crown", default_duration_mins |-> 60,
                      base_value |-> 1200]
                ELSE [name |-> "Implant", default_duration_mins |-> 240,
                      base_value |-> 3000]]

----------------------------------------------------------------------------
(* Inputs of the requests *)

StartTimes == {540, 570}                     \* Monday 09:00 and 09:30

\* booking requests: every valid one, and one for each id that may be unknown
BookingRequests ==
    [session_id : {"s1"}, patient_id : {"p1"}, dentist_id : {"d1", "d2"},
     start_time : StartTimes, procedure_code : {"D1110", "D2710"}]
    \cup
    {[session_id |-> s, patient_id |-> p, dentist_id |-> d, start_time |-> 540,
      procedure_code |-> c] :
        <<s, p, d, c>> \in {<<"s9", "p1", "d1", "D1110">>, <<"s1", "p9", "d1", "D1110">>,
                            <<"s1", "p1", "d9", "D1110">>, <<"s1", "p1", "d1", "D9999">>}}

\* status values an update request carries (None: no status field)
UpdateStatuses == {"BOOKED", "CANCELLED", "BOGUS", None}

\* availability queries: clinic, date range, procedure code
SlotQueries ==
    ({"c1"} \X {<<0, 0>>, <<0, 1439>>} \X {None, "D2710"})
       \cup {<<"c9", <<0, 0>>, None>>, <<"c1", BadRange, None>>}

Callers == {1, 2}

----------------------------------------------------------------------------
(* datetime arithmetic *)

DayMins == 24 * 60

\* datetime.replace(hour=h, minute=0, second=0, microsecond=0)
ReplaceHour(t, h) == (t \div DayMins) * DayMins + h * 60

\* variant of Weekday that counts from Sunday
Weekday_FromSunday(t) == ((t \div DayMins) + 1) % 7

\* datetime.weekday(): Monday = 0 ... Sunday = 6
Weekday(t) == (t \div DayMins) % 7

OpenHour == 9
CloseHour == 17
DefaultDuration == 30
FirstWeekendDay == 5

----------------------------------------------------------------------------
(* Text forms: a string is a sequence of tokens.  The date part of an ISO   *)
(* timestamp is the two-digit number of the day; a UUID is one token.       *)

Digits == <<"0", "1", "2", "3", "4", "5", "6", "7", "8", "9">>

\* the two-digit decimal numerals, "%02d"
TwoDigitsOf == [n \in 0..99 |-> <<Digits[(n \div 10) + 1], Digits[(n % 10) + 1]>>]

TwoDigits(n) == TwoDigitsOf[n]

\* variant of IsoFormat that prints the hour only
IsoFormat_HourOnly(t) ==
    TwoDigits(t \div DayMins) \o <<"T">> \o TwoDigits((t % DayMins) \div 60)
        \o <<":">> \o TwoDigits(0) \o <<":">> \o TwoDigits(0)

\* the time part of isoformat() for each minute of the day: "T" HH:MM:00
ClockTextOf ==
    [m \in 0..(DayMins - 1) |->
        <<"T">> \o TwoDigits(m \div 60) \o <<":">> \o TwoDigits(m % 60)
            \o <<":">> \o TwoDigits(0)]

\* datetime.isoformat() of a naive datetime with whole minutes: dd "T" HH:MM:00
IsoFormat(t) == TwoDigits(t \div DayMins) \o ClockTextOf[t % DayMins]

DigitValue(c) == (CHOOSE i \in DOMAIN Digits : Digits[i] = c) - 1

IsNumber(s) == \A k \in DOMAIN s : \E i \in DOMAIN Digits : Digits[i] = s[k]

TwoDigitValue(s) == 10 * DigitValue(s[1]) + DigitValue(s[2])

\* datetime.fromisoformat(): NoTime stands for ValueError; a date alone is
\* midnight, the seconds are optional
FromIsoFormat(s) ==
    LET date == SubSeq(s, 1, 2)
        hh == SubSeq(s, 4, 5)
        mm == SubSeq(s, 7, 8)
        ss == SubSeq(s, 10, 11)
    IN  IF Len(s) = 2 /\ IsNumber(s) THEN TwoDigitValue(s) * DayMins
        ELSE IF /\ Len(s) \in {8, 11}
                /\ IsNumber(date) /\ s[3] = "T"
                /\ IsNumber(hh) /\ TwoDigitValue(hh) < 24
                /\ s[6] = ":"
                /\ IsNumber(mm) /\ TwoDigitValue(mm) < 60
                /\ (Len(s) = 11 => s[9] = ":" /\ ss = TwoDigits(0))
             THEN TwoDigitValue(date) * DayMins + TwoDigitValue(hh) * 60
                    + TwoDigitValue(mm)
             ELSE NoTime

\* str.split("@", 1)
SplitOnce(s) ==
    IF \A k \in DOMAIN s : s[k] # "@" THEN <<s>>
    ELSE LET i == CHOOSE k \in DOMAIN s : s[k] = "@" /\ \A j \in 1..(k - 1) : s[j] # "@"
         IN  <<SubSeq(s, 1, i - 1), SubSeq(s, i + 1, Len(s))>>

\* rows' UUIDs and one well-formed UUID that names no row
Uuids == {"d1", "d2", "d3", "d4", "d9", "p1", "p2", "p9", "s1", "s9", "c1", "c2", "c9"}

\* str(uuid)
UuidStr(u) == <<u>>

\* UUID(text): None stands for ValueError
PyUUID(s) == IF Len(s) = 1 /\ s[1] \in Uuids THEN s[1] ELSE None

\* f"{dentist.id}@{current_time.isoformat()}"
SlotId(dentist_id, current_time) ==
    UuidStr(dentist_id) \o <<"@">> \o IsoFormat(current_time)

\* what the parse of a malformed slot id yields ("Invalid slot ID format")
BadSlot == [dentist_id |-> None, start_time |-> NoTime]

\* dentist_id_str, start_time_str = slot_id.split("@", 1); UUID(); fromisoformat()
ParseSlotId(slot_id) ==
    LET parts == SplitOnce(slot_id)
    IN  IF Len(parts) # 2 THEN BadSlot
        ELSE IF PyUUID(parts[1]) = None \/ FromIsoFormat(parts[2]) = NoTime THEN BadSlot
        ELSE [dentist_id |-> PyUUID(parts[1]), start_time |-> FromIsoFormat(parts[2])]

----------------------------------------------------------------------------
(* Result record of a request *)

\* op, result and time of the last request; for an availability query also
\* its parameters and the slot list of the response
Ret(op, result, query, slots) ==
    [op |-> op, result |-> result, query |-> query, slots |-> slots, at |-> now]


----------------------------------------------------------------------------
(* Availability engine: routes/appointments.py get_available_slots *)

\* variant of ActiveDentists that forgets the clinic
ActiveDentists_AnyClinic(clinic_id) ==
    LET Keep(d) == Dentist[d].is_active
    IN  SelectSeq(DentistOrder, Keep)

\* select(Dentist).where(clinic_id == clinic_id, is_active == True)
ActiveDentists(clinic_id) ==
    LET Keep(d) == Dentist[d].clinic_id = clinic_id /\ Dentist[d].is_active
    IN  SelectSeq(DentistOrder, Keep)

\* variant of ExistingAppointments that forgets the status filter
ExistingAppointments_AnyStatus(tbl, clinic_id, start_date, end_date) ==
    {i \in DOMAIN tbl :
        /\ tbl[i].clinic_id = clinic_id
        /\ tbl[i].start_time >= start_date
        /\ tbl[i].start_time <= end_date}

\* select(Appointment).where(clinic_id, start_time in [start, end], not CANCELLED)
ExistingAppointments(tbl, clinic_id, start_date, end_date) ==
    {i \in DOMAIN tbl :
        /\ tbl[i].clinic_id = clinic_id
        /\ tbl[i].start_time >= start_date
        /\ tbl[i].start_time <= end_date
        /\ tbl[i].status # "CANCELLED"}

\* procedure_duration: 30 unless the code is given and found in the catalog
ProcedureDuration(catalog, procedure_code) ==
    IF procedure_code # None /\ procedure_code \in DOMAIN catalog
    THEN catalog[procedure_code].default_duration_mins
    ELSE DefaultDuration

\* the inner "for appt in existing_appointments" overlap test for one dentist
SlotAvailable(tbl, existing, dentist_id, current_time, slot_end) ==
    \A i \in existing :
        tbl[i].dentist_id = dentist_id =>
            (slot_end <= tbl[i].start_time
               \/ current_time >= tbl[i].start_time + tbl[i].duration_mins)

\* variant of SlotsAt that walks the dentists backwards
SlotsAt_Backwards(tbl, existing, dentists, current_time, duration) ==
    LET all == [k \in 1..Len(dentists) |->
                   [id |-> SlotId(dentists[Len(dentists) + 1 - k], current_time),
                    dentist_id |-> dentists[Len(dentists) + 1 - k],
                    start_time |-> current_time,
                    end_time |-> current_time + duration]]
        Free(sl) == SlotAvailable(tbl, existing, sl.dentist_id, sl.start_time, sl.end_time)
    IN  SelectSeq(all, Free)

\* the slots appended for one value of current_time ("for dentist in dentists")
SlotsAt(tbl, existing, dentists, current_time, duration) ==
    LET all == [k \in 1..Len(dentists) |->
                   [id |-> SlotId(dentists[k], current_time),
                    dentist_id |-> dentists[k], start_time |-> current_time,
                    end_time |-> current_time + duration]]
        Free(sl) == SlotAvailable(tbl, existing, sl.dentist_id, sl.start_time, sl.end_time)
    IN  SelectSeq(all, Free)

\* the "while current_time <= end_time" loop
RECURSIVE SlotLoop(_, _, _, _, _, _)
SlotLoop(tbl, existing, dentists, current_time, end_time, duration) ==
    IF current_time > end_time THEN <<>>
    ELSE IF Weekday(current_time) >= FirstWeekendDay
         THEN SlotLoop(tbl, existing, dentists,
                       ReplaceHour(current_time + DayMins, OpenHour), end_time, duration)
         ELSE SlotsAt(tbl, existing, dentists, current_time, duration)
              \o SlotLoop(tbl, existing, dentists, current_time + duration,
                          end_time, duration)

\* the slot list of a request that passed the clinic and date-range checks
AvailableSlots(tbl, catalog, clinic_id, start_date, end_date, procedure_code) ==
    LET dentists == ActiveDentists(clinic_id)
    IN  IF dentists = <<>> THEN <<>>
        ELSE SlotLoop(tbl,
                      ExistingAppointments(tbl, clinic_id, start_date, end_date),
                      dentists,
                      ReplaceHour(start_date, OpenHour),
                      ReplaceHour(end_date, CloseHour),
                      ProcedureDuration(catalog, procedure_code))

\* GET /appointments/available
GetAvailableSlots(clinic_id, date_range, procedure_code) ==
    LET query == <<clinic_id, date_range, procedure_code>>
    IN
    /\ ret' = IF date_range = BadRange THEN Ret("query", "BadRequest", query, <<>>)
              ELSE IF clinic_id \notin Clinic THEN Ret("query", "NotFound", query, <<>>)
              ELSE Ret("query", "OK", query,
                       AvailableSlots(appts, procs, clinic_id, date_range[1],
                                      date_range[2], procedure_code))
    /\ UNCHANGED <<appts, bk, offers, now, sw, procs>>

----------------------------------------------------------------------------
(* Booking, update and cancel: routes/appointments.py, tools/booking.py *)

\* variant of SlotTaken with the dentist comparison negated
SlotTaken_OtherDentist(tbl, dentist_id, start_time) ==
    \E i \in DOMAIN tbl :
        /\ tbl[i].dentist_id # dentist_id
        /\ tbl[i].start_time = start_time
        /\ tbl[i].status # "CANCELLED"

\* select(Appointment).where(dentist_id ==, start_time ==, status != CANCELLED)
SlotTaken(tbl, dentist_id, start_time) ==
    \E i \in DOMAIN tbl :
        /\ tbl[i].dentist_id = dentist_id
        /\ tbl[i].start_time = start_time
        /\ tbl[i].status # "CANCELLED"

\* Appointment(id=uuid4(), ..., status=BOOKED)
NewAppointment(patient_id, dentist_id, start_time, procedure_code) ==
    [patient_id |-> patient_id,
     clinic_id |-> Dentist[dentist_id].clinic_id,
     dentist_id |-> dentist_id,
     start_time |-> start_time,
     duration_mins |-> procs[procedure_code].default_duration_mins,
     procedure_code |-> procedure_code,
     procedure_name |-> procs[procedure_code].name,
     estimated_value |-> procs[procedure_code].base_value,
     status |-> "BOOKED"]

\* variant of BookingLookup that does not look the patient up
BookingLookup_NoPatient(patient_id, dentist_id, procedure_code) ==
    IF dentist_id \notin DOMAIN Dentist THEN "NotFound"
    ELSE IF procedure_code \notin DOMAIN procs THEN "NotFound"
    ELSE "OK"

\* the lookups both booking entry points make before the availability check
BookingLookup(patient_id, dentist_id, procedure_code) ==
    IF patient_id \notin Patient THEN "NotFound"
    ELSE IF dentist_id \notin DOMAIN Dentist THEN "NotFound"
    ELSE IF procedure_code \notin DOMAIN procs THEN "NotFound"
    ELSE "OK"

\* POST /appointments
CreateAppointment(session_id, patient_id, dentist_id, start_time, procedure_code) ==
    LET lookup == IF session_id \notin DOMAIN AgentSession THEN "NotFound"
                  ELSE BookingLookup(patient_id, dentist_id, procedure_code)
    IN
    /\ IF lookup # "OK"
       THEN /\ ret' = Ret("create", lookup, <<>>, <<>>)
            /\ appts' = appts
       ELSE IF SlotTaken(appts, dentist_id, start_time)
       THEN /\ ret' = Ret("create", "SlotNoLongerAvailable", <<>>, <<>>)
            /\ appts' = appts
       ELSE /\ Len(appts) < MaxAppts
            /\ appts' = Append(appts, NewAppointment(patient_id, dentist_id,
                                                     start_time, procedure_code))
            /\ ret' = Ret("create", "Created", <<>>, <<>>)
    /\ UNCHANGED <<bk, offers, now, sw, procs>>

\* the book_appointment agent tool with a database session
BookAppointment(patient_id, dentist_id, start_time, procedure_code) ==
    LET lookup == BookingLookup(patient_id, dentist_id, procedure_code)
    IN
    /\ IF lookup # "OK"
       THEN /\ ret' = Ret("book", lookup, <<>>, <<>>)
            /\ appts' = appts
       ELSE IF SlotTaken(appts, dentist_id, start_time)
       THEN /\ ret' = Ret("book", "SlotNoLongerAvailable", <<>>, <<>>)
            /\ appts' = appts
       ELSE /\ Len(appts) < MaxAppts
            /\ appts' = Append(appts, NewAppointment(patient_id, dentist_id,
                                                     start_time, procedure_code))
            /\ ret' = Ret("book", "Created", <<>>, <<>>)
    /\ UNCHANGED <<bk, offers, now, sw, procs>>

\* the conflict query of update_appointment: same dentist, same start, other row
UpdateConflict(tbl, appointment_id, start_time) ==
    \E i \in DOMAIN tbl :
        /\ tbl[i].dentist_id = tbl[appointment_id].dentist_id
        /\ tbl[i].start_time = start_time
        /\ i # appointment_id
        /\ tbl[i].status # "CANCELLED"

\* The tables after update_appointment raised 409.  The handler has assigned
\* the new status to the row before the conflict select (which flushes it)
\* and raises without a rollback: the assignment is dropped when the database
\* dependency discards the session, and stays, to be committed with the next
\* request, when the session is kept and shared (tests/conftest.py).
AfterConflict(appointment_id, new_status) ==
    {appts} \cup
    (IF new_status = None THEN {}
     ELSE {[appts EXCEPT ![appointment_id].status = new_status]})

\* PUT /appointments/{appointment_id}; None and NoTime stand for absent fields
UpdateAppointment(appointment_id, new_status, new_start) ==
    /\ IF appointment_id \notin DOMAIN appts
       THEN /\ ret' = Ret("update", "NotFound", <<>>, <<>>)
            /\ appts' = appts
       ELSE IF new_status # None /\ new_status \notin AppointmentStatus
       THEN /\ ret' = Ret("update", "BadRequest", <<>>, <<>>)
            /\ appts' = appts
       ELSE IF new_start # NoTime /\ UpdateConflict(appts, appointment_id, new_start)
       THEN /\ ret' = Ret("update", "SlotNoLongerAvailable", <<>>, <<>>)
            /\ appts' \in AfterConflict(appointment_id, new_status)
       ELSE /\ appts' = [appts EXCEPT ![appointment_id] =
                   [@ EXCEPT !.status = IF new_status # None THEN new_status ELSE @,
                             !.start_time = IF new_start # NoTime THEN new_start ELSE @]]
            /\ ret' = Ret("update", "OK", <<>>, <<>>)
    /\ UNCHANGED <<bk, offers, now, sw, procs>>

\* variant of CancelAppointment that refuses an appointment already cancelled
CancelAppointment_Once(appointment_id) ==
    /\ IF appointment_id \notin DOMAIN appts
       THEN /\ ret' = Ret("cancel", "NotFound", <<appointment_id>>, <<>>)
            /\ appts' = appts
       ELSE IF appts[appointment_id].status = "CANCELLED"
       THEN /\ ret' = Ret("cancel", "BadRequest", <<appointment_id>>,
                          <<appts[appointment_id].status>>)
            /\ appts' = appts
       ELSE /\ appts' = [appts EXCEPT ![appointment_id].status = "CANCELLED"]
            /\ ret' = Ret("cancel", "OK", <<appointment_id>>,
                          <<appts[appointment_id].status>>)
    /\ UNCHANGED <<bk, offers, now, sw, procs>>

\* DELETE /appointments/{appointment_id}; the result records the id asked for
\* and the status of the row the handler fetched
CancelAppointment(appointment_id) ==
    /\ IF appointment_id \notin DOMAIN appts
       THEN /\ ret' = Ret("cancel", "NotFound", <<appointment_id>>, <<>>)
            /\ appts' = appts
       ELSE /\ appts' = [appts EXCEPT ![appointment_id].status = "CANCELLED"]
            /\ ret' = Ret("cancel", "OK", <<appointment_id>>,
                          <<appts[appointment_id].status>>)
    /\ UNCHANGED <<bk, offers, now, sw, procs>>

----------------------------------------------------------------------------
(* Sequential calendar specification: one request at a time *)

IdleCallers == [c \in Callers |->
                  [pc |-> "idle", op |-> None, patient_id |-> None, dentist_id |-> None,
                   start_time |-> NoTime, procedure_code |-> None, result |-> None]]
IdleSweeps == [c \in Callers |-> [pc |-> "idle", current_time |-> 0, ids |-> {},
                                  result |-> NoTime]]

Init ==
    /\ now = 0
    /\ appts = <<>>
    /\ ret = Ret("none", "none", <<>>, <<>>)
    /\ bk = IdleCallers
    /\ offers = <<>>
    /\ sw = IdleSweeps
    /\ procs = Procedure

Next ==
    \/ \E q \in SlotQueries : GetAvailableSlots(q[1], q[2], q[3])
    \/ \E r \in BookingRequests :
          CreateAppointment(r.session_id, r.patient_id, r.dentist_id,
                            r.start_time, r.procedure_code)
    \/ \E r \in BookingRequests :
          /\ r.session_id = "s1"
          /\ BookAppointment(r.patient_id, r.dentist_id, r.start_time, r.procedure_code)
    \/ \E a \in 1..MaxAppts, st \in UpdateStatuses, t \in StartTimes \cup {NoTime} :
          UpdateAppointment(a, st, t)
    \/ \E a \in 1..MaxAppts : CancelAppointment(a)

Spec == Init /\ [][Next]_vars


----------------------------------------------------------------------------
(* Concurrent bookings: each caller runs create_appointment or               *)
(* book_appointment on its own database session; the handlers yield at every *)
(* await, so another caller may run between the availability select and the  *)
(* commit.  The lookups before the select read rows no request changes.      *)

\* from the start of the handler up to the availability select and its test
BookCheck(c, op, r) ==
    LET lookup == IF op = "create" /\ r.session_id \notin DOMAIN AgentSession
                  THEN "NotFound"
                  ELSE BookingLookup(r.patient_id, r.dentist_id, r.procedure_code)
        req == [bk[c] EXCEPT !.op = op, !.patient_id = r.patient_id,
                             !.dentist_id = r.dentist_id,
                             !.start_time = r.start_time,
                             !.procedure_code = r.procedure_code]
    IN
    /\ bk[c].pc = "idle"
    /\ bk' = [bk EXCEPT ![c] =
                IF lookup # "OK"
                THEN [req EXCEPT !.pc = "done", !.result = lookup]
                ELSE IF SlotTaken(appts, r.dentist_id, r.start_time)
                THEN [req EXCEPT !.pc = "done", !.result = "SlotNoLongerAvailable"]
                ELSE [req EXCEPT !.pc = "commit"]]
    /\ UNCHANGED <<appts, ret, offers, now, sw, procs>>

\* db.add(appointment); await db.commit(): the table has no constraint on
\* (dentist_id, start_time), so the insert cannot raise IntegrityError
BookCommit(c) ==
    /\ bk[c].pc = "commit"
    /\ Len(appts) < MaxAppts
    /\ appts' = Append(appts, NewAppointment(bk[c].patient_id, bk[c].dentist_id,
                                             bk[c].start_time, bk[c].procedure_code))
    /\ bk' = [bk EXCEPT ![c].pc = "done", ![c].result = "Created"]
    /\ UNCHANGED <<ret, offers, now, sw, procs>>

NextConc ==
    \/ \E c \in Callers, op \in {"create", "book"}, r \in BookingRequests :
          BookCheck(c, op, r)
    \/ \E c \in Callers : BookCommit(c)

SpecConc == Init /\ [][NextConc]_vars

----------------------------------------------------------------------------
(* Move offers: models/move_offer.py, services/move_offer_service.py *)

\* expires_at is 24 hours (one day of the clock) after offered_at
OfferLifetime == 1

\* a MoveOffer row as the callers of the service store it
NewOffer(offered_at, status) ==
    [original_appointment_id |-> "a1",
     target_appointment_id |-> None,
     incentive_type |-> "DISCOUNT",
     incentive_value |-> "10% discount",
     move_score |-> 75,
     status |-> status,
     offered_at |-> offered_at,
     expires_at |-> offered_at + OfferLifetime,
     responded_at |-> NoTime]

\* session.add(MoveOffer(...)); commit(): a row offered at or before now
InsertOffer(offered_at, status) ==
    /\ Len(offers) < MaxOffers
    /\ offered_at <= now
    /\ offers' = Append(offers, NewOffer(offered_at, status))
    /\ ret' = Ret("insert", "OK", <<>>, <<>>)
    /\ UNCHANGED <<appts, bk, now, sw, procs>>

\* variant of ExpiredOfferIds without the status filter
ExpiredOfferIds_AnyStatus(tbl, current_time) ==
    {o \in DOMAIN tbl : tbl[o].expires_at < current_time}

\* variant of ExpiredOfferIds that also takes offers expiring at current_time
ExpiredOfferIds_NotStrict(tbl, current_time) ==
    {o \in DOMAIN tbl :
        tbl[o].status = "PENDING" /\ tbl[o].expires_at <= current_time}

\* select(MoveOffer.id).where(status == PENDING, expires_at < current_time)
ExpiredOfferIds(tbl, current_time) ==
    {o \in DOMAIN tbl :
        tbl[o].status = "PENDING" /\ tbl[o].expires_at < current_time}

\* variant of ExpireOffers that writes responded_at only
ExpireOffers_NoStatus(tbl, ids, current_time) ==
    [o \in DOMAIN tbl |->
        IF o \in ids THEN [tbl[o] EXCEPT !.responded_at = current_time] ELSE tbl[o]]

\* variant of ExpireOffers that writes current_time to expires_at as well
ExpireOffers_MovesExpiry(tbl, ids, current_time) ==
    [o \in DOMAIN tbl |->
        IF o \in ids
        THEN [tbl[o] EXCEPT !.status = "EXPIRED", !.responded_at = current_time,
                            !.expires_at = current_time]
        ELSE tbl[o]]

\* update(MoveOffer).where(id.in_(ids)).values(status=EXPIRED, responded_at=current_time)
ExpireOffers(tbl, ids, current_time) ==
    [o \in DOMAIN tbl |->
        IF o \in ids
        THEN [tbl[o] EXCEPT !.status = "EXPIRED", !.responded_at = current_time]
        ELSE tbl[o]]

\* MoveOfferService.expire_old_offers run without interruption
ExpireOldOffers ==
    LET current_time == now
        expired_offer_ids == ExpiredOfferIds(offers, current_time)
    IN
    /\ IF expired_offer_ids = {}
       THEN offers' = offers
       ELSE offers' = ExpireOffers(offers, expired_offer_ids, current_time)
    /\ ret' = Ret("sweep", Cardinality(expired_offer_ids), <<>>, <<>>)
    /\ UNCHANGED <<appts, bk, now, sw, procs>>

\* variant of Respond that does not look at expires_at
Respond_IgnoresExpiry(offer_id, decision) ==
    /\ IF offer_id \notin DOMAIN offers
       THEN /\ ret' = Ret("respond", "NotFound", <<>>, <<>>)
            /\ offers' = offers
       ELSE IF offers[offer_id].status # "PENDING"
       THEN /\ ret' = Ret("respond", "InvalidState", <<>>, <<>>)
            /\ offers' = offers
       ELSE /\ offers' = [offers EXCEPT ![offer_id].status = decision,
                                        ![offer_id].responded_at = now]
            /\ ret' = Ret("respond", "OK", <<>>, <<>>)
    /\ UNCHANGED <<appts, bk, now, sw, procs>>

\* respond(offer_id, decision) as section 4.3 of the specification states it
Respond(offer_id, decision) ==
    /\ IF offer_id \notin DOMAIN offers
       THEN /\ ret' = Ret("respond", "NotFound", <<>>, <<>>)
            /\ offers' = offers
       ELSE IF offers[offer_id].status # "PENDING" \/ offers[offer_id].expires_at < now
       THEN /\ ret' = Ret("respond", "InvalidState", <<>>, <<>>)
            /\ offers' = offers
       ELSE /\ offers' = [offers EXCEPT ![offer_id].status = decision,
                                        ![offer_id].responded_at = now]
            /\ ret' = Ret("respond", "OK", <<>>, <<>>)
    /\ UNCHANGED <<appts, bk, now, sw, procs>>

\* time passes
Tick ==
    /\ now < MaxTime
    /\ now' = now + 1
    /\ UNCHANGED <<appts, ret, bk, offers, sw, procs>>

\* statuses of the rows the callers store
InsertStatuses == {"PENDING", "ACCEPTED", "EXPIRED"}

NextOffers ==
    \/ \E t \in 0..MaxTime, st \in InsertStatuses : InsertOffer(t, st)
    \/ ExpireOldOffers
    \/ \E o \in 1..MaxOffers, d \in {"ACCEPTED", "DECLINED"} : Respond(o, d)
    \/ Tick

SpecOffers == Init /\ [][NextOffers]_vars

(* Concurrent sweeps and responses: expire_old_offers yields at its two      *)
(* awaits, between the select of the ids and the update.                    *)

\* current_time = datetime.now(); select the ids; return 0 if there are none
SweepRead(c) ==
    LET ids == ExpiredOfferIds(offers, now)
    IN
    /\ sw[c].pc = "idle"
    /\ sw' = [sw EXCEPT ![c] =
                IF ids = {}
                THEN [pc |-> "done", current_time |-> now, ids |-> ids, result |-> 0]
                ELSE [pc |-> "update", current_time |-> now, ids |-> ids,
                      result |-> NoTime]]
    /\ UNCHANGED <<appts, ret, bk, offers, now, procs>>

\* the update by id, the commit and return len(expired_offer_ids)
SweepUpdate(c) ==
    /\ sw[c].pc = "update"
    /\ offers' = ExpireOffers(offers, sw[c].ids, sw[c].current_time)
    /\ sw' = [sw EXCEPT ![c].pc = "done", ![c].result = Cardinality(sw[c].ids)]
    /\ UNCHANGED <<appts, ret, bk, now, procs>>

NextOffersConc ==
    \/ \E t \in 0..MaxTime : InsertOffer(t, "PENDING")
    \/ \E c \in Callers : SweepRead(c)
    \/ \E c \in Callers : SweepUpdate(c)
    \/ \E o \in 1..MaxOffers, d \in {"ACCEPTED", "DECLINED"} : Respond(o, d)
    \/ Tick

SpecOffersConc == Init /\ [][NextOffersConc]_vars

----------------------------------------------------------------------------
(* Operator listings: get_pending_offers and get_expired_offers *)

\* every arrangement of the ids in a sequence
Arrangements(ids) ==
    {s \in [1..Cardinality(ids) -> ids] :
        \A j, k \in DOMAIN s : j # k => s[j] # s[k]}

\* variant of OffersByExpiry without the order_by clause
OffersByExpiry_Unordered(tbl, status) ==
    Arrangements({o \in DOMAIN tbl : tbl[o].status = status})

\* select(MoveOffer).where(status == status).order_by(expires_at.asc()): the
\* result lists the matching rows (by id) with expires_at ascending; rows
\* with equal expires_at come in whatever order the database returns them
OffersByExpiry(tbl, status) ==
    {s \in Arrangements({o \in DOMAIN tbl : tbl[o].status = status}) :
        \A j, k \in DOMAIN s : j < k => tbl[s[j]].expires_at <= tbl[s[k]].expires_at}

\* MoveOfferService.get_pending_offers
GetPendingOffers ==
    /\ \E rows \in OffersByExpiry(offers, "PENDING") :
          ret' = Ret("pending", "OK", <<>>, rows)
    /\ UNCHANGED <<appts, bk, offers, now, sw, procs>>

\* MoveOfferService.get_expired_offers
GetExpiredOffers ==
    /\ \E rows \in OffersByExpiry(offers, "EXPIRED") :
          ret' = Ret("expired", "OK", <<>>, rows)
    /\ UNCHANGED <<appts, bk, offers, now, sw, procs>>

NextLists ==
    \/ \E t \in 0..MaxTime, st \in InsertStatuses : InsertOffer(t, st)
    \/ ExpireOldOffers
    \/ GetPendingOffers
    \/ GetExpiredOffers
    \/ Tick

SpecLists == Init /\ [][NextLists]_vars

----------------------------------------------------------------------------
(* The send_move_offer agent tool with a database session: tools/offers.py *)

BadId == 0 - 2           \* an id string that UUID() rejects

\* original_appointment_id values of the calls: malformed, stored, not stored
SendIds == {BadId} \cup (1..(MaxAppts + 1))

Incentives == {"10% discount", "priority slot"}

\* the bookings that fill the calendar of the send_move_offer specification
SendBookings ==
    {r \in BookingRequests :
        r.session_id = "s1" /\ r.patient_id = "p1" /\ r.dentist_id = "d1"
          /\ r.procedure_code = "D1110"}

\* variant of SendMoveOffer that marks the appointment OFFERING_MOVE
SendMoveOffer_MarksAppointment(original_appointment_id, incentive) ==
    /\ IF original_appointment_id = BadId
       THEN /\ ret' = Ret("send", "ERROR", <<original_appointment_id, incentive>>, <<>>)
            /\ appts' = appts
       ELSE IF original_appointment_id \notin DOMAIN appts
       THEN /\ ret' = Ret("send", "ERROR", <<original_appointment_id, incentive>>, <<>>)
            /\ appts' = appts
       ELSE /\ ret' = Ret("send", "TypeError", <<original_appointment_id, incentive>>, <<>>)
            /\ appts' = [appts EXCEPT ![original_appointment_id].status = "OFFERING_MOVE"]
    /\ UNCHANGED <<bk, offers, now, sw, procs>>

\* variant of SendMoveOffer that stores an offer without looking up the appointment
SendMoveOffer_NoLookup(original_appointment_id, incentive) ==
    /\ IF original_appointment_id = BadId
       THEN /\ ret' = Ret("send", "ERROR", <<original_appointment_id, incentive>>, <<>>)
            /\ offers' = offers
       ELSE /\ Len(offers) < MaxOffers
            /\ ret' = Ret("send", "PENDING", <<original_appointment_id, incentive>>, <<>>)
            /\ offers' = Append(offers, NewOffer(now, "PENDING"))
    /\ UNCHANGED <<appts, bk, now, sw, procs>>

\* send_move_offer(original_appointment_id, new_slot, incentive, db).  For a
\* stored appointment the MoveOffer constructor is called with the keyword
\* expiry_at; the mapped class has the column expires_at and no attribute
\* expiry_at, so the constructor raises TypeError before db.add and nothing
\* is stored.  new_slot is only echoed in the result.
SendMoveOffer(original_appointment_id, incentive) ==
    /\ ret' = IF original_appointment_id = BadId
              THEN Ret("send", "ERROR", <<original_appointment_id, incentive>>, <<>>)
              ELSE IF original_appointment_id \notin DOMAIN appts
              THEN Ret("send", "ERROR", <<original_appointment_id, incentive>>, <<>>)
              ELSE IF appts[original_appointment_id].patient_id \notin Patient
              THEN Ret("send", "ERROR", <<original_appointment_id, incentive>>, <<>>)
              ELSE Ret("send", "TypeError", <<original_appointment_id, incentive>>, <<>>)
    /\ UNCHANGED <<appts, bk, offers, now, sw, procs>>

NextSend ==
    \/ \E r \in SendBookings :
          CreateAppointment(r.session_id, r.patient_id, r.dentist_id,
                            r.start_time, r.procedure_code)
    \/ \E a \in 1..MaxAppts : CancelAppointment(a)
    \/ \E st \in {"PENDING", "ACCEPTED"} : InsertOffer(now, st)
    \/ \E a \in SendIds, inc \in Incentives : SendMoveOffer(a, inc)

SpecSend == Init /\ [][NextSend]_vars

----------------------------------------------------------------------------
(* Move-score heuristic: routes/heuristics.py, tools/heuristics.py.  Money    *)
(* amounts and LTV scores are whole numbers.                                  *)

Min(a, b) == IF a <= b THEN a ELSE b
Max(a, b) == IF a >= b THEN a ELSE b

\* int(a / b) for b > 0: Python's int() truncates toward zero
TruncDiv(a, b) == IF a >= 0 THEN a \div b ELSE 0 - ((0 - a) \div b)

\* patients table: id |-> ltv_score
LtvScore == [p \in Patient |-> IF p = "p1" THEN 500 ELSE 0]

\* datetime.now() in minutes, the clock counting days
NowMins == now * DayMins

\* (appointment.start_time - datetime.now()).days, then max(0, days_until):
\* timedelta.days is the floor of the difference in days
DaysUntil(start_time, t) == Max(0, (start_time - t) \div DayMins)

\* variant of CalculateMoveScoreHeuristic with the LTV penalty per 100 points
CalculateMoveScoreHeuristic_LtvPer100(current_value, new_value, patient_ltv, days_until_appointment) ==
    LET revenue_diff == new_value - current_value
        revenue_score == Min(80, Max(0, TruncDiv(revenue_diff, 10)))
        ltv_penalty == Min(40, TruncDiv(patient_ltv, 100))
        timing_bonus == Min(20, days_until_appointment * 2)
        move_score == Max(0, Min(100, revenue_score - ltv_penalty + timing_bonus + 30))
    IN  IF move_score > 85 THEN <<move_score, "MOVE", "5% discount">>
        ELSE IF move_score > 70 THEN <<move_score, "MOVE", "10% discount">>
        ELSE IF move_score >= 50
             THEN <<move_score, "CONSIDER", "15% discount or priority slot">>
        ELSE <<move_score, "KEEP", "No incentive needed">>

\* variant of CalculateMoveScoreHeuristic without the final clamp to 0..100
CalculateMoveScoreHeuristic_NoClamp(current_value, new_value, patient_ltv, days_until_appointment) ==
    LET revenue_diff == new_value - current_value
        revenue_score == Min(80, Max(0, TruncDiv(revenue_diff, 10)))
        ltv_penalty == Min(40, TruncDiv(patient_ltv, 50))
        timing_bonus == Min(20, days_until_appointment * 2)
        move_score == revenue_score - ltv_penalty + timing_bonus + 30
    IN  IF move_score > 85 THEN <<move_score, "MOVE", "5% discount">>
        ELSE IF move_score > 70 THEN <<move_score, "MOVE", "10% discount">>
        ELSE IF move_score >= 50
             THEN <<move_score, "CONSIDER", "15% discount or priority slot">>
        ELSE <<move_score, "KEEP", "No incentive needed">>

\* variant of CalculateMoveScoreHeuristic that adds the LTV term to the score
CalculateMoveScoreHeuristic_LtvAdded(current_value, new_value, patient_ltv, days_until_appointment) ==
    LET revenue_diff == new_value - current_value
        revenue_score == Min(80, Max(0, TruncDiv(revenue_diff, 10)))
        ltv_penalty == Min(40, TruncDiv(patient_ltv, 50))
        timing_bonus == Min(20, days_until_appointment * 2)
        move_score == Max(0, Min(100, revenue_score + ltv_penalty + timing_bonus + 30))
    IN  IF move_score > 85 THEN <<move_score, "MOVE", "5% discount">>
        ELSE IF move_score > 70 THEN <<move_score, "MOVE", "10% discount">>
        ELSE IF move_score >= 50
             THEN <<move_score, "CONSIDER", "15% discount or priority slot">>
        ELSE <<move_score, "KEEP", "No incentive needed">>

\* calculate_move_score_heuristic: (move_score, recommendation, incentive)
CalculateMoveScoreHeuristic(current_value, new_value, patient_ltv, days_until_appointment) ==
    LET revenue_diff == new_value - current_value
        revenue_score == Min(80, Max(0, TruncDiv(revenue_diff, 10)))
        ltv_penalty == Min(40, TruncDiv(patient_ltv, 50))
        timing_bonus == Min(20, days_until_appointment * 2)
        move_score == Max(0, Min(100, revenue_score - ltv_penalty + timing_bonus + 30))
    IN  IF move_score > 85 THEN <<move_score, "MOVE", "5% discount">>
        ELSE IF move_score > 70 THEN <<move_score, "MOVE", "10% discount">>
        ELSE IF move_score >= 50
             THEN <<move_score, "CONSIDER", "15% discount or priority slot">>
        ELSE <<move_score, "KEEP", "No incentive needed">>

\* the computation heuristic_move_check makes inline once it has the
\* appointment, the patient's LTV and the clamped days until the appointment
HeuristicMoveCheckScore(current_value, new_value, patient_ltv, days_until_appointment) ==
    LET revenue_diff == new_value - current_value
        revenue_score == Min(80, Max(0, TruncDiv(revenue_diff, 10)))
        ltv_penalty == Min(40, TruncDiv(patient_ltv, 50))
        timing_bonus == Min(20, days_until_appointment * 2)
        move_score == Max(0, Min(100, revenue_score - ltv_penalty + timing_bonus + 30))
    IN  IF move_score > 70
        THEN IF move_score > 85 THEN <<move_score, "MOVE", "5% discount">>
             ELSE IF move_score > 80 THEN <<move_score, "MOVE", "10% discount">>
             ELSE <<move_score, "MOVE", "15% discount or priority slot">>
        ELSE IF move_score >= 50
             THEN <<move_score, "CONSIDER", "15% discount or priority slot">>
        ELSE <<move_score, "KEEP", "No incentive needed">>

\* inputs of the direct evaluations of calculate_move_score_heuristic
ScoreValues == {150, 155, 700, 1200}
ScoreLtvs == {0, 500, 5000}
ScoreDays == {0 - 3, 0, 3, 12}

\* new_procedure_value / new_value of the requests
NewValues == {150, 700, 1200}

\* the bookings that fill the calendar: a crown on Monday 09:00 and a
\* cleaning on Thursday 09:00
ScoreBookings ==
    {[session_id |-> "s1", patient_id |-> "p1", dentist_id |-> "d1",
      start_time |-> t, procedure_code |-> c] :
        <<t, c>> \in {<<540, "D2710">>, <<3 * DayMins + 540, "D1110">>}}

\* one evaluation of calculate_move_score_heuristic; the response records the
\* arguments in query and the returned tuple in slots
ScoreMove(current_value, new_value, patient_ltv, days_until_appointment) ==
    /\ ret' = Ret("score", "OK",
                  <<current_value, new_value, patient_ltv, days_until_appointment>>,
                  CalculateMoveScoreHeuristic(current_value, new_value, patient_ltv,
                                              days_until_appointment))
    /\ UNCHANGED <<appts, bk, offers, now, sw, procs>>

\* POST /heuristics/move-score
CalculateMoveScore(appointment_id, new_procedure_value) ==
    LET query == <<appointment_id, new_procedure_value>>
    IN
    /\ ret' = IF appointment_id = BadId THEN Ret("move-score", "BadRequest", query, <<>>)
              ELSE IF appointment_id \notin DOMAIN appts
              THEN Ret("move-score", "NotFound", query, <<>>)
              ELSE LET appointment == appts[appointment_id]
                       patient_ltv == IF appointment.patient_id \in Patient
                                      THEN LtvScore[appointment.patient_id] ELSE 0
                       days_until == DaysUntil(appointment.start_time, NowMins)
                   IN  Ret("move-score", "OK", query,
                           CalculateMoveScoreHeuristic(appointment.estimated_value,
                                                       new_procedure_value,
                                                       patient_ltv, days_until))
    /\ UNCHANGED <<appts, bk, offers, now, sw, procs>>

\* the heuristic_move_check agent tool with a database session
HeuristicMoveCheck(appointment_id, new_value) ==
    LET query == <<appointment_id, new_value>>
    IN
    /\ ret' = IF appointment_id = BadId \/ appointment_id \notin DOMAIN appts
              THEN Ret("move-check", "OK", query, <<0, "KEEP", "No incentive needed">>)
              ELSE LET appointment == appts[appointment_id]
                       patient_ltv == IF appointment.patient_id \in Patient
                                      THEN LtvScore[appointment.patient_id] ELSE 0
                       days_until_appointment ==
                           DaysUntil(appointment.start_time, NowMins)
                   IN  Ret("move-check", "OK", query,
                           HeuristicMoveCheckScore(appointment.estimated_value, new_value,
                                                   patient_ltv, days_until_appointment))
    /\ UNCHANGED <<appts, bk, offers, now, sw, procs>>

NextScore ==
    \/ \E r \in ScoreBookings :
          CreateAppointment(r.session_id, r.patient_id, r.dentist_id,
                            r.start_time, r.procedure_code)
    \/ Tick
    \/ \E c \in ScoreValues, n \in ScoreValues, l \in ScoreLtvs, d \in ScoreDays :
          ScoreMove(c, n, l, d)
    \/ \E a \in SendIds, n \in NewValues : CalculateMoveScore(a, n)
    \/ \E a \in SendIds, n \in NewValues : HeuristicMoveCheck(a, n)

SpecScore == Init /\ [][NextScore]_vars

----------------------------------------------------------------------------
(* Availability over longer windows, the check_availability agent tool and  *)
(* bookings made with a slot identifier: routes/appointments.py,            *)
(* tools/availability.py, tools/booking.py                                  *)

CheckStride == 30
ShownPerDentist == 3

\* the first n elements of a list: slots[:n]
Take(s, n) == SubSeq(s, 1, Min(n, Len(s)))

\* the tool's "while current_time <= end_time" loop for one dentist
RECURSIVE CheckLoop(_, _, _, _, _)
CheckLoop(tbl, existing, dentist_id, current_time, end_time) ==
    IF current_time > end_time THEN <<>>
    ELSE (IF /\ SlotAvailable(tbl, existing, dentist_id, current_time,
                              current_time + CheckStride)
             /\ current_time >= NowMins
          THEN <<[dentist_id |-> dentist_id, start_time |-> current_time]>>
          ELSE <<>>)
         \o CheckLoop(tbl, existing, dentist_id, current_time + CheckStride, end_time)

\* the lines of the tool's answer: the first three slots of each dentist
RECURSIVE ShownSlots(_, _, _, _)
ShownSlots(tbl, dentists, start_dt, end_dt) ==
    IF dentists = <<>> THEN <<>>
    ELSE Take(CheckLoop(tbl,
                        ExistingAppointments(tbl, Dentist[Head(dentists)].clinic_id,
                                             start_dt, end_dt),
                        Head(dentists),
                        ReplaceHour(start_dt, OpenHour),
                        ReplaceHour(end_dt, CloseHour)),
              ShownPerDentist)
         \o ShownSlots(tbl, Tail(dentists), start_dt, end_dt)

\* the check_availability agent tool with a database session and a clinic id
CheckAvailability(clinic_id, date_range) ==
    LET query == <<clinic_id, date_range>>
    IN
    /\ ret' = IF date_range = BadRange
              THEN Ret("check", "InvalidDateFormat", query, <<>>)
              ELSE IF ActiveDentists(clinic_id) = <<>>
              THEN Ret("check", "NoActiveDentists", query, <<>>)
              ELSE Ret("check", "OK", query,
                       ShownSlots(appts, ActiveDentists(clinic_id),
                                  date_range[1], date_range[2]))
    /\ UNCHANGED <<appts, bk, offers, now, sw, procs>>

\* POST /appointments with the slot_id of the request body
CreateAppointmentRequest(session_id, patient_id, slot_id, procedure_code) ==
    LET slot == ParseSlotId(slot_id)
        query == <<slot_id, patient_id, procedure_code>>
    IN
    /\ IF session_id \notin DOMAIN AgentSession \/ patient_id \notin Patient
       THEN /\ ret' = Ret("create", "NotFound", query, <<>>)
            /\ appts' = appts
       ELSE IF slot = BadSlot
       THEN /\ ret' = Ret("create", "BadRequest", query, <<>>)
            /\ appts' = appts
       ELSE IF BookingLookup(patient_id, slot.dentist_id, procedure_code) # "OK"
       THEN /\ ret' = Ret("create", "NotFound", query, <<>>)
            /\ appts' = appts
       ELSE IF SlotTaken(appts, slot.dentist_id, slot.start_time)
       THEN /\ ret' = Ret("create", "SlotNoLongerAvailable", query, <<>>)
            /\ appts' = appts
       ELSE /\ Len(appts) < MaxAppts
            /\ appts' = Append(appts, NewAppointment(patient_id, slot.dentist_id,
                                                     slot.start_time, procedure_code))
            /\ ret' = Ret("create", "Created", query, <<>>)
    /\ UNCHANGED <<bk, offers, now, sw, procs>>

\* the book_appointment agent tool called with a slot_id
BookAppointmentRequest(patient_id, slot_id, procedure_code) ==
    LET slot == ParseSlotId(slot_id)
        query == <<slot_id, patient_id, procedure_code>>
    IN
    /\ IF slot = BadSlot
       THEN /\ ret' = Ret("book", "InvalidSlotId", query, <<>>)
            /\ appts' = appts
       ELSE IF BookingLookup(patient_id, slot.dentist_id, procedure_code) # "OK"
       THEN /\ ret' = Ret("book", "NotFound", query, <<>>)
            /\ appts' = appts
       ELSE IF SlotTaken(appts, slot.dentist_id, slot.start_time)
       THEN /\ ret' = Ret("book", "SlotNoLongerAvailable", query, <<>>)
            /\ appts' = appts
       ELSE /\ Len(appts) < MaxAppts
            /\ appts' = Append(appts, NewAppointment(patient_id, slot.dentist_id,
                                                     slot.start_time, procedure_code))
            /\ ret' = Ret("book", "Created", query, <<>>)
    /\ UNCHANGED <<bk, offers, now, sw, procs>>

\* windows: Monday alone; Monday to Tuesday; Friday to Monday; a Saturday
\* alone; Tuesday back to Monday; Monday 15:00 back to Monday 10:00
Windows ==
    {<<0, 0>>, <<0, DayMins>>, <<4 * DayMins, 7 * DayMins>>,
     <<5 * DayMins, 5 * DayMins>>, <<DayMins, 0>>, <<900, 600>>}

\* a Saturday to the Monday nine days later
LongWindow == <<5 * DayMins, 14 * DayMins>>

WindowQueries ==
    ({"c1"} \X Windows \X {None, "D2710"})
       \cup {<<"c1", LongWindow, "D6010">>,
             <<"c2", <<0, 0>>, None>>, <<"c9", <<0, 0>>, None>>,
             <<"c1", <<0, 0>>, "D9999">>, <<"c1", BadRange, None>>}

CheckQueries ==
    {<<"c1", <<0, 0>>>>, <<"c1", <<0, DayMins>>>>, <<"c2", <<0, 0>>>>,
     <<"c1", BadRange>>}

\* slot identifiers a caller may send: two a listing shows, one that names no
\* dentist, one whose timestamp does not parse and one without "@"
SlotIds ==
    {SlotId("d1", 540), SlotId("d2", 540), SlotId("d9", 540),
     <<"d1", "@", "x">>, <<"d1">>}

SlotBookings ==
    (SlotIds \X {"p1"} \X {"D1110"})
       \cup {<<SlotId("d1", 540), "p9", "D1110">>, <<SlotId("d1", 540), "p1", "D2710">>,
             <<SlotId("d1", 540), "p1", "D9999">>}

NextSlots ==
    \/ \E q \in WindowQueries : GetAvailableSlots(q[1], q[2], q[3])
    \/ \E b \in SlotBookings : CreateAppointmentRequest("s1", b[2], b[1], b[3])
    \/ \E b \in SlotBookings : BookAppointmentRequest(b[2], b[1], b[3])

SpecSlots == Init /\ [][NextSlots]_vars

\* the listings as the clock advances
NextClock ==
    \/ \E q \in {<<"c1", <<0, 0>>, None>>, <<"c1", <<0, DayMins>>, "D2710">>} :
          GetAvailableSlots(q[1], q[2], q[3])
    \/ \E q \in CheckQueries : CheckAvailability(q[1], q[2])
    \/ \E b \in SlotBookings : CreateAppointmentRequest("s1", b[2], b[1], b[3])
    \/ Tick

SpecClock == Init /\ [][NextClock]_vars

----------------------------------------------------------------------------
(* The procedure catalog changes after bookings were made:                  *)
(* models/procedure.py, models/appointment.py                               *)

\* rows an operator may write over a procedure of the catalog
CatalogRows ==
    {[name |-> "Adult cleaning", default_duration_mins |-> 45, base_value |-> 175]}

\* variant of UpdateProcedure that also rewrites the appointments of the code
UpdateProcedure_Cascade(code, row) ==
    /\ code \in DOMAIN procs
    /\ procs[code] # row
    /\ procs' = [procs EXCEPT ![code] = row]
    /\ appts' = [i \in DOMAIN appts |->
                   IF appts[i].procedure_code = code
                   THEN [appts[i] EXCEPT !.procedure_name = row.name,
                                         !.duration_mins = row.default_duration_mins,
                                         !.estimated_value = row.base_value]
                   ELSE appts[i]]
    /\ UNCHANGED <<ret, bk, offers, now, sw>>

\* an UPDATE of the name, duration and value of one row of the procedures
\* table; the appointments table has no foreign key to it
UpdateProcedure(code, row) ==
    /\ code \in DOMAIN procs
    /\ procs[code] # row
    /\ procs' = [procs EXCEPT ![code] = row]
    /\ UNCHANGED <<appts, ret, bk, offers, now, sw>>

CatalogBookings ==
    {<<SlotId("d1", 540), "p1", "D1110">>, <<SlotId("d2", 540), "p1", "D1110">>}

NextCatalog ==
    \/ \E b \in CatalogBookings : CreateAppointmentRequest("s1", b[2], b[1], b[3])
    \/ \E b \in CatalogBookings : BookAppointmentRequest(b[2], b[1], b[3])
    \/ \E a \in 1..MaxAppts : UpdateAppointment(a, "COMPLETED", NoTime)
    \/ \E a \in 1..MaxAppts : UpdateAppointment(a, None, 570)
    \/ \E a \in 1..MaxAppts : CancelAppointment(a)
    \/ \E row \in CatalogRows : UpdateProcedure("D1110", row)

SpecCatalog == Init /\ [][NextCatalog]_vars

----------------------------------------------------------------------------
(* Day optimisation: routes/heuristics.py optimize_day *)

\* order in which select(Procedure) returns the rows
ProcedureOrder == <<"D1110", "D2710", "D6010">>

\* a clinic_id that is not a UUID
BadClinic == "zz"

\* variant of DayAppointments that forgets the status filter
DayAppointments_AnyStatus(tbl, clinic_id, day) ==
    LET Keep(i) == /\ tbl[i].clinic_id = clinic_id
                   /\ tbl[i].start_time >= day * DayMins
                   /\ tbl[i].start_time < (day + 1) * DayMins
    IN  SelectSeq([i \in 1..Len(tbl) |-> i], Keep)

\* select(Appointment).where(clinic_id, day_start <= start_time < day_end,
\* status == BOOKED): the ids, in row order
DayAppointments(tbl, clinic_id, day) ==
    LET Keep(i) == /\ tbl[i].clinic_id = clinic_id
                   /\ tbl[i].start_time >= day * DayMins
                   /\ tbl[i].start_time < (day + 1) * DayMins
                   /\ tbl[i].status = "BOOKED"
    IN  SelectSeq([i \in 1..Len(tbl) |-> i], Keep)

\* variant of MoveSuggestion that reports the procedure's value as the gain
MoveSuggestion_GainIsValue(appointment_id, appt, procedure, scored) ==
    [source_appointment_id |-> appointment_id,
     target_slot |-> <<appt.dentist_id, "-">> \o IsoFormat(appt.start_time),
     move_score |-> scored[1],
     incentive_needed |-> scored[3],
     potential_revenue_gain |-> procedure.base_value]

\* MoveSuggestion(source_appointment_id=..., potential_revenue_gain=revenue_gain)
MoveSuggestion(appointment_id, appt, procedure, scored) ==
    [source_appointment_id |-> appointment_id,
     target_slot |-> <<appt.dentist_id, "-">> \o IsoFormat(appt.start_time),
     move_score |-> scored[1],
     incentive_needed |-> scored[3],
     potential_revenue_gain |-> procedure.base_value - appt.estimated_value]

\* the inner loop "for proc_code, procedure in all_procedures.items()" for
\* one appointment; base_value > estimated_value * 1.5 in whole numbers
RECURSIVE ProcedureLoop(_, _, _, _, _)
ProcedureLoop(appointment_id, appt, catalog, codes, t) ==
    IF codes = <<>> THEN <<>>
    ELSE LET procedure == catalog[Head(codes)]
             patient_ltv == IF appt.patient_id \in Patient
                            THEN LtvScore[appt.patient_id] ELSE 0
             scored == CalculateMoveScoreHeuristic(appt.estimated_value,
                                                   procedure.base_value, patient_ltv,
                                                   DaysUntil(appt.start_time, t))
         IN  (IF /\ 2 * procedure.base_value > 3 * appt.estimated_value
                 /\ scored[2] = "MOVE"
                 /\ scored[1] > 70
              THEN <<MoveSuggestion(appointment_id, appt, procedure, scored)>>
              ELSE <<>>)
             \o ProcedureLoop(appointment_id, appt, catalog, Tail(codes), t)

\* the outer loop "for appt in appointments"
RECURSIVE AppointmentLoop(_, _, _, _)
AppointmentLoop(ids, tbl, catalog, t) ==
    IF ids = <<>> THEN <<>>
    ELSE ProcedureLoop(Head(ids), tbl[Head(ids)], catalog, ProcedureOrder, t)
         \o AppointmentLoop(Tail(ids), tbl, catalog, t)

\* variant of SortByScore that leaves the list as the loops built it
SortByScore_Unsorted(s) == s

\* suggestions.sort(key=lambda s: s.move_score, reverse=True): a stable sort,
\* suggestions of equal score keep the order of the loops
RECURSIVE SortByScore(_)
SortByScore(s) ==
    IF s = <<>> THEN <<>>
    ELSE LET x == s[Len(s)]
             sorted == SortByScore(SubSeq(s, 1, Len(s) - 1))
             NotBelow(y) == y.move_score >= x.move_score
             Below(y) == y.move_score < x.move_score
         IN  SelectSeq(sorted, NotBelow) \o <<x>> \o SelectSeq(sorted, Below)

\* POST /heuristics/optimize-day
OptimizeDay(clinic_id, day) ==
    LET query == <<clinic_id, day>>
        appointments == DayAppointments(appts, clinic_id, day)
    IN
    /\ ret' = IF clinic_id = BadClinic THEN Ret("optimize", "BadRequest", query, <<>>)
              ELSE IF appointments = <<>> THEN Ret("optimize", "OK", query, <<>>)
              ELSE Ret("optimize", "OK", query,
                       SortByScore(AppointmentLoop(appointments, appts, procs, NowMins)))
    /\ UNCHANGED <<appts, bk, offers, now, sw, procs>>

\* the bookings of the optimised days: cleanings on the first Thursday and on
\* the Thursday a week later, the second for the patient without LTV
OptimizeBookings ==
    {[session_id |-> "s1", patient_id |-> "p1", dentist_id |-> "d1",
      start_time |-> 3 * DayMins + 540, procedure_code |-> "D1110"],
     [session_id |-> "s1", patient_id |-> "p2", dentist_id |-> "d2",
      start_time |-> 10 * DayMins + 540, procedure_code |-> "D1110"],
     [session_id |-> "s1", patient_id |-> "p2", dentist_id |-> "d2",
      start_time |-> 3 * DayMins + 540, procedure_code |-> "D1110"]}

\* rows written over the crown: values below and above one and a half times
\* a cleaning, and at both sides of the least gain that can score above 70
OptimizeRows ==
    {[name |-> "Crown", default_duration_mins |-> 60, base_value |-> v] :
        v \in {200, 300, 359, 360, 600}}

OptimizeQueries == ({"c1"} \X {3, 10}) \cup {<<"c2", 3>>, <<"c9", 3>>, <<BadClinic, 3>>}

NextOptimize ==
    \/ \E r \in OptimizeBookings :
          CreateAppointment(r.session_id, r.patient_id, r.dentist_id,
                            r.start_time, r.procedure_code)
    \/ \E a \in 1..MaxAppts : CancelAppointment(a)
    \/ \E row \in OptimizeRows : UpdateProcedure("D2710", row)
    \/ Tick
    \/ \E q \in OptimizeQueries : OptimizeDay(q[1], q[2])

SpecOptimize == Init /\ [][NextOptimize]_vars

----------------------------------------------------------------------------
(* Properties of the calendar *)

NonCancelled(i) == appts[i].status # "CANCELLED"

\* half-open intervals [s1, s1 + d1) and [s2, s2 + d2) intersect
Intersect(s1, d1, s2, d2) == s1 < s2 + d2 /\ s2 < s1 + d1

\* a non-cancelled appointment of the practitioner starts at that instant
Held(dentist_id, start_time) ==
    \E i \in DOMAIN appts :
        /\ NonCancelled(i)
        /\ appts[i].dentist_id = dentist_id
        /\ appts[i].start_time = start_time

ValidRequest(r) ==
    /\ r.session_id \in DOMAIN AgentSession
    /\ r.patient_id \in Patient
    /\ r.dentist_id \in DOMAIN Dentist
    /\ r.procedure_code \in DOMAIN Procedure

\* C1: for every practitioner, no two appointments whose status is not
\* CANCELLED have intersecting intervals [start_time, start_time + duration),
\* after any sequence of booking, update and cancel requests.
C1_NoOverlap ==
    \A i, j \in DOMAIN appts :
        (i # j /\ NonCancelled(i) /\ NonCancelled(j)
           /\ appts[i].dentist_id = appts[j].dentist_id)
        => ~Intersect(appts[i].start_time, appts[i].duration_mins,
                      appts[j].start_time, appts[j].duration_mins)

\* C3: a booking request (with known session, patient, practitioner and
\* procedure) for a practitioner and start time held by a non-cancelled
\* appointment is answered SlotNoLongerAvailable, not NotFound, by the route
\* and by the tool, and leaves the appointments table as it was, so the holder
\* keeps its status.
C3_DoubleBookingRejected ==
    [][\A r \in BookingRequests :
         ( /\ ret'.op \in {"create", "book"}
           /\ ValidRequest(r)
           /\ Held(r.dentist_id, r.start_time)
           /\ \/ CreateAppointment(r.session_id, r.patient_id, r.dentist_id,
                                   r.start_time, r.procedure_code)
              \/ BookAppointment(r.patient_id, r.dentist_id, r.start_time,
                                 r.procedure_code) )
         => (ret'.result = "SlotNoLongerAvailable" /\ appts' = appts)]_vars

\* a request for a held slot was refused and the holder is still BOOKED
C3_Witness ==
    /\ ret.op = "create"
    /\ ret.result = "SlotNoLongerAvailable"
    /\ \E i \in DOMAIN appts : appts[i].status = "BOOKED"

\* the listing contains the practitioner's slot at that start time
Lists(slots, dentist_id, start_time) ==
    \E k \in DOMAIN slots :
        slots[k].dentist_id = dentist_id /\ slots[k].start_time = start_time

\* no non-cancelled appointment of the practitioner intersects [start, start + duration)
SlotClear(dentist_id, start_time, duration) ==
    \A i \in DOMAIN appts :
        (NonCancelled(i) /\ appts[i].dentist_id = dentist_id)
        => ~Intersect(start_time, duration, appts[i].start_time, appts[i].duration_mins)

\* <<query, practitioner, start>> for every slot a well-formed query returns
\* on an empty calendar
EmptyCalendarSlots ==
    UNION { LET slots == AvailableSlots(<<>>, Procedure, q[1], q[2][1], q[2][2], q[3])
            IN  {<<q, slots[k].dentist_id, slots[k].start_time>> : k \in DOMAIN slots} :
            q \in {x \in SlotQueries : x[1] \in Clinic /\ x[2] # BadRange} }

\* C4: the slot of a cancelled appointment is bookable again.  Whenever no
\* non-cancelled appointment of the practitioner overlaps it, an availability
\* query whose window and stride contain the cancelled start time (it lists
\* the slot on an empty calendar) lists the practitioner's slot at that time,
\* and a valid booking request for that practitioner and start time succeeds
\* and adds a BOOKED appointment there.
C4_CancelFreesSlot ==
    [][\A a \in DOMAIN appts :
         appts[a].status = "CANCELLED" =>
            /\ ( /\ ret'.op = "query"
                 /\ ret' # ret
                 /\ <<ret'.query, appts[a].dentist_id, appts[a].start_time>>
                       \in EmptyCalendarSlots
                 /\ SlotClear(appts[a].dentist_id, appts[a].start_time,
                              ProcedureDuration(procs, ret'.query[3])) )
               => /\ ret'.result = "OK"
                  /\ Lists(ret'.slots, appts[a].dentist_id, appts[a].start_time)
            /\ \A r \in BookingRequests :
                  ( /\ ret'.op \in {"create", "book"}
                    /\ ValidRequest(r)
                    /\ r.dentist_id = appts[a].dentist_id
                    /\ r.start_time = appts[a].start_time
                    /\ SlotClear(r.dentist_id, r.start_time, appts[a].duration_mins)
                    /\ \/ CreateAppointment(r.session_id, r.patient_id, r.dentist_id,
                                            r.start_time, r.procedure_code)
                       \/ BookAppointment(r.patient_id, r.dentist_id, r.start_time,
                                          r.procedure_code) )
                  => /\ ret'.result = "Created"
                     /\ Len(appts') = Len(appts) + 1
                     /\ appts'[Len(appts')].dentist_id = r.dentist_id
                     /\ appts'[Len(appts')].start_time = r.start_time
                     /\ appts'[Len(appts')].status = "BOOKED"]_vars

\* a query listed the slot of a cancelled appointment while it withheld the
\* slot of a live appointment of the same practitioner
C4_Witness ==
    /\ ret.op = "query"
    /\ ret.result = "OK"
    /\ \E a, b \in DOMAIN appts :
          /\ appts[a].status = "CANCELLED"
          /\ appts[b].status = "BOOKED"
          /\ appts[a].dentist_id = appts[b].dentist_id
          /\ ~Held(appts[a].dentist_id, appts[a].start_time)
          /\ Lists(ret.slots, appts[a].dentist_id, appts[a].start_time)
          /\ ~Lists(ret.slots, appts[b].dentist_id, appts[b].start_time)


----------------------------------------------------------------------------
(* Properties of concurrent bookings *)

\* C2: when two booking requests for the same practitioner and start time
\* run concurrently, at most one of them creates an appointment and the
\* other is answered SlotNoLongerAvailable: once both have returned (neither
\* with NotFound), they have not both reported Created and the start time has
\* exactly one holder.
C2_OneBookingWins ==
    \A c, e \in Callers :
        ( /\ c # e
          /\ bk[c].pc = "done" /\ bk[e].pc = "done"
          /\ bk[c].dentist_id = bk[e].dentist_id
          /\ bk[c].start_time = bk[e].start_time
          /\ bk[c].result = "Created"
          /\ bk[e].result # "NotFound" )
        => /\ bk[e].result = "SlotNoLongerAvailable"
           /\ Cardinality({i \in DOMAIN appts :
                             /\ NonCancelled(i)
                             /\ appts[i].dentist_id = bk[c].dentist_id
                             /\ appts[i].start_time = bk[c].start_time}) = 1


----------------------------------------------------------------------------
(* Properties of the move-offer lifecycle *)

Terminal == {"ACCEPTED", "DECLINED", "EXPIRED"}

\* the step is a call of expire_old_offers (a later identical call that
\* changes nothing is a stuttering step)
SweepStep == ret'.op = "sweep" /\ now' = now

\* the PENDING offers whose expires_at is strictly earlier than t
Overdue(t) ==
    {o \in DOMAIN offers : offers[o].status = "PENDING" /\ offers[o].expires_at < t}

\* C5: once an offer is ACCEPTED, DECLINED or EXPIRED, no later call of
\* respond or expire_old_offers, in any sequence of calls, changes its status
\* or its responded_at.
C5_TerminalStaysTerminal ==
    [][\A o \in DOMAIN offers :
         offers[o].status \in Terminal =>
            /\ offers'[o].status = offers[o].status
            /\ offers'[o].responded_at = offers[o].responded_at]_vars

\* a sweep ran after the expiry of an ACCEPTED offer and left it ACCEPTED
C5_Witness ==
    /\ ret.op = "sweep"
    /\ ret.result >= 1
    /\ \E o \in DOMAIN offers :
          /\ offers[o].status = "ACCEPTED"
          /\ offers[o].expires_at < ret.at

\* C6: when a sweep (read of the overdue PENDING ids, then update) interleaves
\* with a respond on the same offer, at most one of them transitions the
\* offer: the sweep's update never overwrites a status set after its read,
\* so a terminal status and its responded_at stay as they are.
C6_SweepNeverOverwrites ==
    [][\A c \in Callers, o \in DOMAIN offers :
         (SweepUpdate(c) /\ offers[o].status # "PENDING")
         => offers'[o] = offers[o]]_vars

\* C7: an uninterrupted sweep at time t sets to EXPIRED exactly the offers
\* that were PENDING with expires_at < t, sets responded_at = t on each of
\* them, and returns their number.
C7_SweepExpiresOverdue ==
    [][SweepStep =>
         /\ DOMAIN offers' = DOMAIN offers
         /\ \A o \in Overdue(now) :
               offers'[o].status = "EXPIRED" /\ offers'[o].responded_at = now
         /\ \A o \in DOMAIN offers \ Overdue(now) :
               offers'[o].status = offers[o].status
         /\ ret'.result = Cardinality(Overdue(now))]_vars

\* a sweep expired an offer while a PENDING offer expiring exactly at the
\* sweep time stayed PENDING
C7_Witness ==
    /\ ret.op = "sweep"
    /\ ret.result = 1
    /\ \E o, p \in DOMAIN offers :
          /\ offers[o].status = "EXPIRED" /\ offers[o].responded_at = ret.at
          /\ offers[p].status = "PENDING" /\ offers[p].expires_at = ret.at

\* C8: a sweep that directly follows a sweep, with no offer created and no
\* PENDING offer passing its expires_at between the two calls, returns 0 and
\* changes no offer.
C8_SecondSweepIsNoOp ==
    [][( /\ ret.op = "sweep"
         /\ SweepStep
         /\ ~\E o \in DOMAIN offers :
               /\ offers[o].status = "PENDING"
               /\ ret.at <= offers[o].expires_at
               /\ offers[o].expires_at < now )
       => (ret'.result = 0 /\ offers' = offers)]_vars

\* a sweep returned 0 at a later time than the sweep that expired an offer,
\* with a PENDING offer not yet overdue left alone
C8_Witness ==
    /\ ret.op = "sweep"
    /\ ret.result = 0
    /\ \E o, p \in DOMAIN offers :
          /\ offers[o].status = "EXPIRED"
          /\ offers[o].responded_at # NoTime
          /\ offers[o].responded_at < ret.at
          /\ offers[p].status = "PENDING"

\* C9: a sweep leaves unchanged every offer that is not PENDING and every
\* PENDING offer whose expires_at is not earlier than the sweep time; on the
\* offers it expires it changes status and responded_at only; it changes no
\* appointment.
C9_SweepFrame ==
    [][SweepStep =>
         /\ appts' = appts
         /\ DOMAIN offers' = DOMAIN offers
         /\ \A o \in DOMAIN offers \ Overdue(now) : offers'[o] = offers[o]
         /\ \A o \in Overdue(now) :
               offers'[o] = [offers[o] EXCEPT !.status = offers'[o].status,
                                              !.responded_at = offers'[o].responded_at]]_vars

\* a sweep expired one offer next to an overdue ACCEPTED offer
C9_Witness ==
    /\ ret.op = "sweep"
    /\ ret.result = 1
    /\ \E o, p \in DOMAIN offers :
          /\ offers[o].status = "EXPIRED" /\ offers[o].responded_at = ret.at
          /\ offers[p].status = "ACCEPTED" /\ offers[p].expires_at < ret.at
          /\ offers[p].responded_at = NoTime

\* C10: respond on an offer that is not PENDING, or whose expires_at has
\* passed (swept or not), is answered InvalidState and leaves the offer
\* unchanged; a PENDING offer that has not passed expires_at takes the
\* decision as its status and the time of the call as responded_at.
C10_RespondOnlyWhilePending ==
    [][\A o \in DOMAIN offers, d \in {"ACCEPTED", "DECLINED"} :
         Respond(o, d) =>
            IF offers[o].status # "PENDING" \/ offers[o].expires_at < now
            THEN ret'.result = "InvalidState" /\ offers' = offers
            ELSE /\ ret'.result = "OK"
                 /\ offers'[o].status = d
                 /\ offers'[o].responded_at = now]_vars

\* a respond was refused on a PENDING offer past its expires_at that no sweep
\* has expired yet
C10_Witness ==
    /\ ret.op = "respond"
    /\ ret.result = "InvalidState"
    /\ ret.at = now
    /\ \E o \in DOMAIN offers :
          offers[o].status = "PENDING" /\ offers[o].expires_at < now
    /\ \A o \in DOMAIN offers : offers[o].status = "PENDING"

----------------------------------------------------------------------------
(* Properties of the offer listings *)

\* C14: get_pending_offers returns exactly the PENDING offers and
\* get_expired_offers exactly the EXPIRED ones, each offer once, in ascending
\* order of expires_at, and neither call changes an offer or an appointment.
C14_ListingsByStatusAndExpiry ==
    [][ret'.op \in {"pending", "expired"} =>
         LET status == IF ret'.op = "pending" THEN "PENDING" ELSE "EXPIRED"
             rows == ret'.slots
             matching == {o \in DOMAIN offers : offers[o].status = status}
         IN  /\ {rows[k] : k \in DOMAIN rows} = matching
             /\ Len(rows) = Cardinality(matching)
             /\ \A j, k \in DOMAIN rows :
                   j < k => offers[rows[j]].expires_at <= offers[rows[k]].expires_at
             /\ offers' = offers
             /\ appts' = appts]_vars

\* a listing returned two PENDING offers in the reverse of the order they
\* were stored in, the later-stored one expiring first
C14_Witness ==
    /\ ret.op = "pending"
    /\ Len(ret.slots) = 2
    /\ ret.slots[1] > ret.slots[2]
    /\ \A o \in DOMAIN offers : offers[o].status = "PENDING"
    /\ offers[ret.slots[1]].expires_at < offers[ret.slots[2]].expires_at

----------------------------------------------------------------------------
(* Properties of send_move_offer *)

\* the effect of one send_move_offer call on a stored appointment that the
\* lifecycle contract describes
OfferSent(original_appointment_id, incentive) ==
    /\ Len(offers') = Len(offers) + 1
    /\ \A o \in DOMAIN offers : offers'[o] = offers[o]
    /\ LET offer == offers'[Len(offers')]
       IN  /\ offer.original_appointment_id = original_appointment_id
           /\ offer.status = "PENDING"
           /\ offer.target_appointment_id = None
           /\ offer.incentive_value = incentive
           /\ offer.expires_at = offer.offered_at + OfferLifetime

\* C11: send_move_offer on a stored appointment adds exactly one offer, which
\* references that appointment, is PENDING, has no target appointment, carries
\* the given incentive text and expires 24 hours after offered_at.
C11_SendCreatesPendingOffer ==
    [][\A a \in DOMAIN appts, inc \in Incentives :
         (ret'.op = "send" /\ SendMoveOffer(a, inc)) => OfferSent(a, inc)]_vars

\* C12: send_move_offer changes no appointment (the original one keeps its
\* status, start time, practitioner and value; it is not set to
\* OFFERING_MOVE) and no offer that existed before the call.
C12_SendFrame ==
    [][\A a \in SendIds, inc \in Incentives :
         (ret'.op = "send" /\ SendMoveOffer(a, inc))
         => /\ appts' = appts
            /\ \A o \in DOMAIN offers : offers'[o] = offers[o]]_vars

\* send_move_offer ran on a BOOKED appointment while an offer was stored
C12_Witness ==
    /\ ret.op = "send"
    /\ ret.query[1] \in DOMAIN appts
    /\ appts[ret.query[1]].status = "BOOKED"
    /\ Len(offers) >= 1

\* C13: send_move_offer (with a database session) for an appointment id that
\* is malformed or not stored returns an ERROR result and stores no offer:
\* the offers and the appointments are as before.
C13_SendUnknownAppointment ==
    [][\A a \in SendIds \ DOMAIN appts, inc \in Incentives :
         (ret'.op = "send" /\ SendMoveOffer(a, inc))
         => /\ ret'.result = "ERROR"
            /\ offers' = offers
            /\ appts' = appts]_vars

\* send_move_offer was refused for an id next to the stored ones, with room
\* left in the offers table
C13_Witness ==
    /\ ret.op = "send"
    /\ ret.result = "ERROR"
    /\ ret.query[1] = Len(appts) + 1
    /\ Len(appts) >= 1
    /\ Len(offers) = 1

----------------------------------------------------------------------------
(* Properties of the move score *)

Clamp(lo, hi, x) == Max(lo, Min(hi, x))

\* the score the contract's formula gives
FormulaScore(current_value, candidate_value, patient_ltv, days_until_appointment) ==
    LET revenue_score == Clamp(0, 80, (candidate_value - current_value) \div 10)
        ltv_penalty == Clamp(0, 40, patient_ltv \div 50)
        timing_bonus == Clamp(0, 20, Max(0, days_until_appointment) * 2)
    IN  Clamp(0, 100, revenue_score - ltv_penalty + timing_bonus + 30)

\* the (recommendation, incentive) the contract's table gives for a score
TableEntry(score) ==
    IF score > 85 THEN <<"MOVE", "5% discount">>
    ELSE IF score > 70 THEN <<"MOVE", "10% discount">>
    ELSE IF score >= 50 THEN <<"CONSIDER", "15% discount or priority slot">>
    ELSE <<"KEEP", "No incentive needed">>

ScoreOps == {"score", "move-score", "move-check"}

\* C15: for every current_value, candidate_value, patient_ltv >= 0 and every
\* integer days_until_appointment, calculate_move_score_heuristic returns
\* clamp(0, 100, revenue_score - ltv_penalty + timing_bonus + 30) with
\* revenue_score = clamp(0, 80, floor(diff / 10)), ltv_penalty =
\* clamp(0, 40, floor(ltv / 50)), timing_bonus = clamp(0, 20, max(0, days) * 2).
C15_ScoreFormula ==
    ret.op = "score" =>
        ret.slots[1] = FormulaScore(ret.query[1], ret.query[2], ret.query[3], ret.query[4])

\* C16: every score computation (the function, the route and the tool) maps
\* its score to recommendation and incentive by the table: > 85 MOVE with 5%,
\* 71..85 MOVE with 10%, 50..70 CONSIDER with 15% or priority slot, < 50 KEEP
\* with no incentive.
C16_ScoreTable ==
    (ret.op \in ScoreOps /\ ret.result = "OK") =>
        <<ret.slots[2], ret.slots[3]>> = TableEntry(ret.slots[1])

\* C17: calculate_move_score_heuristic(150, 1200, 0, 0) is (100, MOVE, 5%
\* discount) and calculate_move_score_heuristic(1200, 150, 500, 0) has score
\* 20 and recommendation KEEP.
C17_BoundaryValues ==
    ret.op = "score" =>
        /\ ret.query = <<150, 1200, 0, 0>> => ret.slots = <<100, "MOVE", "5% discount">>
        /\ ret.query = <<1200, 150, 500, 0>> => (ret.slots[1] = 20 /\ ret.slots[2] = "KEEP")

\* the second boundary case was evaluated
C17_Witness ==
    /\ ret.op = "score"
    /\ ret.query = <<1200, 150, 500, 0>>
    /\ ret.slots[3] = "No incentive needed"

\* C18: the move score of every computation is an integer in 0..100, also
\* for a candidate value below the current value, for an appointment that
\* started in the past (its days count as 0), and for an LTV or a revenue
\* difference beyond the caps.
C18_ScoreRange ==
    (ret.op \in ScoreOps /\ ret.result = "OK") =>
        /\ ret.slots[1] \in 0..100
        /\ ( /\ ret.op = "move-score"
             /\ ret.query[1] \in DOMAIN appts
             /\ appts[ret.query[1]].start_time < ret.at * DayMins )
           => ret.slots[1] = FormulaScore(appts[ret.query[1]].estimated_value,
                                          ret.query[2],
                                          LtvScore[appts[ret.query[1]].patient_id], 0)

\* the route scored an appointment that started more than a day ago against
\* a candidate worth less than the appointment
C18_Witness ==
    /\ ret.op = "move-score"
    /\ ret.result = "OK"
    /\ ret.at = now
    /\ ret.query[1] \in DOMAIN appts
    /\ appts[ret.query[1]].start_time + DayMins < NowMins
    /\ ret.query[2] < appts[ret.query[1]].estimated_value

----------------------------------------------------------------------------
(* Properties of the availability listing *)

\* C20: no slot an availability query returns intersects (candidate_start <
\* existing_end and candidate_end > existing_start) a non-cancelled
\* appointment of the same practitioner that is stored when the query runs.
C20_ListedSlotsAreFree ==
    [][(ret'.op = "query" /\ ret'.result = "OK") =>
         \A k \in DOMAIN ret'.slots, i \in DOMAIN appts :
            (NonCancelled(i) /\ appts[i].dentist_id = ret'.slots[k].dentist_id)
            => ~( ret'.slots[k].start_time < appts[i].start_time + appts[i].duration_mins
                  /\ ret'.slots[k].end_time > appts[i].start_time )]_vars

\* C21: neither the availability route nor the check_availability tool
\* returns a slot whose start time is earlier than the time of the query.
C21_NoPastSlots ==
    (ret.op \in {"query", "check"} /\ ret.result = "OK")
        => \A k \in DOMAIN ret.slots : ret.slots[k].start_time >= ret.at * DayMins

\* the part of C21 about the tool alone
ToolNoPastSlots ==
    (ret.op = "check" /\ ret.result = "OK")
        => \A k \in DOMAIN ret.slots : ret.slots[k].start_time >= ret.at * DayMins

ListingOK == ret.op = "query" /\ ret.result = "OK"

\* C22: every slot a listing returns starts at or after 09:00 and ends at
\* or before 17:00 of its own calendar day.
C22_WithinOperatingHours ==
    ListingOK =>
        \A k \in DOMAIN ret.slots :
            /\ ret.slots[k].start_time >= (ret.slots[k].start_time \div DayMins) * DayMins + 9 * 60
            /\ ret.slots[k].end_time <= (ret.slots[k].start_time \div DayMins) * DayMins + 17 * 60

\* C23: no slot a listing returns starts on a Saturday or a Sunday, also
\* for windows that start on a weekend or span more than a week.
C23_NoWeekendSlots ==
    ListingOK =>
        \A k \in DOMAIN ret.slots : ((ret.slots[k].start_time \div DayMins) % 7) \notin {5, 6}

\* a listing over the window that starts on a Saturday and spans two
\* weekends, with slots in both weeks after it
C23_Witness ==
    /\ ListingOK
    /\ ret.query[2] = LongWindow
    /\ \E k \in DOMAIN ret.slots : ret.slots[k].start_time < 12 * DayMins
    /\ \E k \in DOMAIN ret.slots : ret.slots[k].start_time >= 14 * DayMins

\* the duration a listing works with: the catalog's for a known code, else 30
ListingDuration ==
    IF ret.query[3] \in DOMAIN procs THEN procs[ret.query[3]].default_duration_mins
    ELSE 30

\* C24: every slot a listing returns ends D minutes after its start, and
\* starts at 09:00 of its own day plus a non-negative whole multiple of D.
C24_SlotGrid ==
    ListingOK =>
        \A k \in DOMAIN ret.slots :
            LET sl == ret.slots[k]
                opening == (sl.start_time \div DayMins) * DayMins + 9 * 60
            IN  /\ sl.end_time = sl.start_time + ListingDuration
                /\ sl.start_time >= opening
                /\ (sl.start_time - opening) % ListingDuration = 0

\* C25: every slot a listing returns belongs to an active dentist of the
\* requested clinic, and a listing for a clinic without an active dentist
\* succeeds with an empty sequence.
C25_ActiveDentistsOfClinic ==
    /\ ListingOK =>
          \A k \in DOMAIN ret.slots :
              /\ Dentist[ret.slots[k].dentist_id].is_active
              /\ Dentist[ret.slots[k].dentist_id].clinic_id = ret.query[1]
    /\ ( /\ ret.op = "query"
         /\ ret.query[2] # BadRange
         /\ ret.query[1] \in Clinic
         /\ ~ \E d \in DOMAIN Dentist :
                Dentist[d].clinic_id = ret.query[1] /\ Dentist[d].is_active )
       => (ret.result = "OK" /\ ret.slots = <<>>)

\* a listing for the clinic whose only dentist is inactive
C25_Witness ==
    /\ ListingOK
    /\ ret.query[1] = "c2"
    /\ \E d \in DOMAIN Dentist : Dentist[d].clinic_id = "c2"

\* position of a dentist in the rows of the dentists query
DentistRank(d) == CHOOSE k \in DOMAIN DentistOrder : DentistOrder[k] = d

C27_InvalidWindowRejected ==
    ( /\ ret.op = "query"
      /\ (ret.query[2] = BadRange \/ ret.query[2][2] < ret.query[2][1]) )
    => ret.result = "BadRequest"

----------------------------------------------------------------------------
(* Properties of bookings made with a slot identifier *)

\* C28: parsing the identifier of a listed slot as the booking does (split
\* once on "@", UUID, ISO timestamp) gives back the dentist and the start
\* time of the slot, and a booking that is made with the identifier of a
\* slot of the last listing and succeeds appends an appointment of that
\* dentist at that start time.
C28_SlotIdRoundTrip ==
    [][ /\ (ret'.op = "query" /\ ret'.result = "OK") =>
              \A k \in DOMAIN ret'.slots :
                  ParseSlotId(ret'.slots[k].id)
                      = [dentist_id |-> ret'.slots[k].dentist_id,
                         start_time |-> ret'.slots[k].start_time]
        /\ (ListingOK /\ ret'.op \in {"create", "book"} /\ ret'.result = "Created") =>
              \A k \in DOMAIN ret.slots :
                  ret.slots[k].id = ret'.query[1] =>
                      /\ Len(appts') = Len(appts) + 1
                      /\ SubSeq(appts', 1, Len(appts)) = appts
                      /\ appts'[Len(appts')].dentist_id = ret.slots[k].dentist_id
                      /\ appts'[Len(appts')].start_time = ret.slots[k].start_time
                      /\ appts'[Len(appts')].status = "BOOKED" ]_vars

\* an appointment was just created from the identifier that a listing builds
\* for its dentist and start time
C28_Witness ==
    /\ ret.op \in {"create", "book"}
    /\ ret.result = "Created"
    /\ ret.query[1] = SlotId(appts[Len(appts)].dentist_id, appts[Len(appts)].start_time)

\* C30: a booking request with a well-formed slot identifier that names an
\* unknown patient, dentist or procedure is answered NotFound and leaves the
\* appointments table as it was.
C30_UnknownReferenceRejected ==
    [][ ( /\ ret'.op \in {"create", "book"}
          /\ ret'.query # <<>>
          /\ ParseSlotId(ret'.query[1]) # BadSlot
          /\ \/ ret'.query[2] \notin Patient
             \/ ParseSlotId(ret'.query[1]).dentist_id \notin DOMAIN Dentist
             \/ ret'.query[3] \notin DOMAIN procs )
        => (ret'.result = "NotFound" /\ appts' = appts) ]_vars

\* a request with an unknown procedure was refused while an appointment is stored
C30_Witness ==
    /\ ret.op \in {"create", "book"}
    /\ ret.query # <<>>
    /\ ret.query[3] \notin DOMAIN procs
    /\ ret.result = "NotFound"
    /\ appts # <<>>

----------------------------------------------------------------------------
(* Properties of the procedure snapshot *)

\* C29: an appointment is stored only by a successful booking, which puts
\* the procedure's code and the catalog's name, default duration and base
\* value of that moment on it, with status BOOKED; and no step (a change of the catalog, a
\* booking, an update or a cancel) changes the procedure code, procedure
\* name, duration or estimated value of an appointment already stored.
C29_ProcedureSnapshot ==
    [][ /\ (Len(appts') > Len(appts)) =>
              LET row == appts'[Len(appts')]
                  code == ret'.query[3]
              IN  /\ ret'.op \in {"create", "book"}
                  /\ ret'.result = "Created"
                  /\ Len(appts') = Len(appts) + 1
                  /\ row.procedure_code = code
                  /\ row.procedure_name = procs[code].name
                  /\ row.duration_mins = procs[code].default_duration_mins
                  /\ row.estimated_value = procs[code].base_value
                  /\ row.status = "BOOKED"
        /\ \A i \in DOMAIN appts :
              /\ i \in DOMAIN appts'
              /\ appts'[i].procedure_code = appts[i].procedure_code
              /\ appts'[i].procedure_name = appts[i].procedure_name
              /\ appts'[i].duration_mins = appts[i].duration_mins
              /\ appts'[i].estimated_value = appts[i].estimated_value ]_vars

\* two appointments of one procedure code, the first booked before and the
\* second after the catalog row changed, each with the values of its time
C29_Witness ==
    \E i, j \in DOMAIN appts :
        /\ i < j
        /\ appts[i].procedure_code = appts[j].procedure_code
        /\ appts[i].procedure_name # procs[appts[i].procedure_code].name
        /\ appts[i].estimated_value # procs[appts[i].procedure_code].base_value
        /\ appts[i].duration_mins # procs[appts[i].procedure_code].default_duration_mins
        /\ appts[j].procedure_name = procs[appts[j].procedure_code].name
        /\ appts[j].estimated_value = procs[appts[j].procedure_code].base_value

----------------------------------------------------------------------------
(* Properties of update and cancel *)

\* C31: an update that would move an appointment onto the start time of
\* another non-cancelled appointment of the same dentist is answered 409
\* (no appointment is ever moved onto such a start time), and the call
\* leaves the stored start time and status of every appointment as they were.
C31_ConflictLeavesAppointment ==
    [][ /\ (ret'.op = "update" /\ ret'.result = "SlotNoLongerAvailable")
              => appts' = appts
        /\ ret'.op = "update" =>
              \A i \in DOMAIN appts :
                  appts'[i].start_time # appts[i].start_time =>
                      ~ \E j \in DOMAIN appts :
                            /\ j # i
                            /\ appts[j].dentist_id = appts[i].dentist_id
                            /\ appts[j].start_time = appts'[i].start_time
                            /\ appts[j].status # "CANCELLED" ]_vars

\* C32: an appointment that has reached CANCELLED, COMPLETED or NO_SHOW is
\* never taken back to BOOKED or OFFERING_MOVE by an update or a cancel.
C32_TerminalStatusesStay ==
    [][ \A i \in DOMAIN appts :
           appts[i].status \in {"CANCELLED", "COMPLETED", "NO_SHOW"}
               => appts'[i].status \notin {"BOOKED", "OFFERING_MOVE"} ]_vars

\* C33: a cancel of a stored appointment succeeds, whatever its status was,
\* and changes nothing but that appointment's status, which is CANCELLED
\* afterwards (so a cancel of a cancelled appointment changes nothing); a
\* cancel answers NotFound exactly when the id has no record, changing nothing.
C33_CancelIdempotent ==
    [][ (ret'.op = "cancel" /\ ret' # ret) =>
           LET a == ret'.query[1]
           IN  /\ ret'.result = "NotFound" <=> a \notin DOMAIN appts
               /\ a \notin DOMAIN appts => appts' = appts
               /\ a \in DOMAIN appts =>
                     /\ ret'.result = "OK"
                     /\ appts' = [appts EXCEPT ![a].status = "CANCELLED"]
                     /\ appts[a].status = "CANCELLED" => appts' = appts ]_vars

\* a cancel of an appointment that was already cancelled has succeeded while
\* another appointment is BOOKED
C33_Witness ==
    /\ ret.op = "cancel"
    /\ ret.result = "OK"
    /\ ret.slots = <<"CANCELLED">>
    /\ appts[ret.query[1]].status = "CANCELLED"
    /\ \E i \in DOMAIN appts : appts[i].status = "BOOKED"

----------------------------------------------------------------------------
(* Properties of the day optimisation *)

\* a step of optimize_day that answered 200
OptimizeStep == ret' # ret /\ ret'.op = "optimize" /\ ret'.result = "OK"

\* whole days from the time of the request to the appointment, never negative
DaysAhead(i) ==
    IF appts[i].start_time < now * DayMins THEN 0
    ELSE (appts[i].start_time - now * DayMins) \div DayMins

\* the score the contract's formula gives appointment i against procedure c
PairScore(i, c) ==
    FormulaScore(appts[i].estimated_value, procs[c].base_value,
                 LtvScore[appts[i].patient_id], DaysAhead(i))

\* the (appointment, procedure) pairs optimize_day(clinic_id, day) is to suggest
SuggestedPairs(clinic_id, day) ==
    {pr \in (DOMAIN appts) \X (DOMAIN procs) :
        /\ appts[pr[1]].status = "BOOKED"
        /\ appts[pr[1]].clinic_id = clinic_id
        /\ appts[pr[1]].start_time \div DayMins = day
        /\ 2 * procs[pr[2]].base_value > 3 * appts[pr[1]].estimated_value
        /\ PairScore(pr[1], pr[2]) > 70
        /\ TableEntry(PairScore(pr[1], pr[2]))[1] = "MOVE"}

\* suggestion sg is the one for the pair pr
SuggestionOf(sg, pr) ==
    /\ sg.source_appointment_id = pr[1]
    /\ sg.move_score = PairScore(pr[1], pr[2])
    /\ sg.potential_revenue_gain
          = procs[pr[2]].base_value - appts[pr[1]].estimated_value

\* C34: optimize_day returns one suggestion for each pair of a BOOKED
\* appointment of the clinic on the date and a catalog procedure worth more
\* than 1.5 times the appointment whose move score is above 70 (MOVE), and
\* no other suggestion; none when the clinic-day has no BOOKED appointment.
C34_OptimizeDaySuggestions ==
    [][ OptimizeStep =>
          LET pairs == SuggestedPairs(ret'.query[1], ret'.query[2])
          IN  /\ Len(ret'.slots) = Cardinality(pairs)
              /\ \A pr \in pairs :
                    \E k \in DOMAIN ret'.slots : SuggestionOf(ret'.slots[k], pr)
              /\ \A k \in DOMAIN ret'.slots :
                    \E pr \in pairs : SuggestionOf(ret'.slots[k], pr)
              /\ (~ \E i \in DOMAIN appts :
                       /\ appts[i].status = "BOOKED"
                       /\ appts[i].clinic_id = ret'.query[1]
                       /\ appts[i].start_time \div DayMins = ret'.query[2])
                  => ret'.slots = <<>> ]_vars

\* the first Thursday of clinic c1 holds a BOOKED cleaning valued 150 and a
\* cancelled appointment, the crown is valued 200, and the answer is the one
\* suggestion against the implant
C34_Witness ==
    /\ ret.op = "optimize"
    /\ ret.result = "OK"
    /\ ret.at = now
    /\ ret.query = <<"c1", 3>>
    /\ procs["D2710"].base_value = 200
    /\ \E i, j \in DOMAIN appts :
          /\ appts[i].status = "BOOKED"
          /\ appts[i].estimated_value = 150
          /\ appts[i].start_time \div DayMins = 3
          /\ appts[j].status = "CANCELLED"
          /\ appts[j].start_time \div DayMins = 3
          /\ Len(ret.slots) = 1
          /\ ret.slots[1].source_appointment_id = i
          /\ ret.slots[1].potential_revenue_gain = 2850

\* C35: the suggestions are in descending order of move score, and
\* optimize_day changes no appointment, offer or procedure (the patients
\* are fixed rows).
C35_SortedAndReadOnly ==
    [][ (ret' # ret /\ ret'.op = "optimize") =>
          /\ \A k, l \in DOMAIN ret'.slots :
                k < l => ret'.slots[k].move_score >= ret'.slots[l].move_score
          /\ appts' = appts
          /\ offers' = offers
          /\ procs' = procs ]_vars

\* an answer with suggestions of different scores, the higher first, where
\* the loops met the lower one first (the crown precedes the implant)
C35_Witness ==
    /\ ret.op = "optimize"
    /\ Len(ret.slots) >= 2
    /\ \E k \in DOMAIN ret.slots :
          /\ k < Len(ret.slots)
          /\ ret.slots[k].source_appointment_id = ret.slots[k + 1].source_appointment_id
          /\ ret.slots[k].move_score > ret.slots[k + 1].move_score
          /\ ret.slots[k].potential_revenue_gain > ret.slots[k + 1].potential_revenue_gain

\* C39: the potential_revenue_gain of every suggestion is the base value of
\* a catalog procedure minus the estimated value of the source appointment,
\* and it is at least 210.
C39_RevenueGain ==
    [][ OptimizeStep =>
          \A k \in DOMAIN ret'.slots :
              /\ ret'.slots[k].source_appointment_id \in DOMAIN appts
              /\ \E c \in DOMAIN procs :
                    ret'.slots[k].potential_revenue_gain
                        = procs[c].base_value
                            - appts[ret'.slots[k].source_appointment_id].estimated_value
              /\ ret'.slots[k].potential_revenue_gain >= 210 ]_vars

\* a suggestion with a gain of exactly 210 and a score of 71, for the patient
\* without LTV and an appointment ten days ahead
C39_Witness ==
    /\ ret.op = "optimize"
    /\ \E k \in DOMAIN ret.slots :
          /\ ret.slots[k].potential_revenue_gain = 210
          /\ ret.slots[k].move_score = 71

----------------------------------------------------------------------------
(* Properties relating the agent tool and the HTTP move score *)

\* C36: for an appointment of the table, heuristic_move_check returns the
\* score, the recommendation and the incentive that the move-score route
\* computes from the same appointment, patient LTV, candidate value and time.
C36_ToolMatchesRoute ==
    [][ (/\ ret' # ret
         /\ ret'.op = "move-check"
         /\ ret'.query[1] \in DOMAIN appts)
        => LET appointment == appts[ret'.query[1]]
           IN  ret'.slots
                 = CalculateMoveScoreHeuristic(appointment.estimated_value,
                                               ret'.query[2],
                                               LtvScore[appointment.patient_id],
                                               DaysUntil(appointment.start_time,
                                                         NowMins)) ]_vars

----------------------------------------------------------------------------
(* Properties of overlapping sweeps *)

\* C37: once both sweeps have returned, the counts they returned add up to
\* the number of offers that were moved from PENDING to EXPIRED (every row
\* is inserted PENDING and only a sweep writes EXPIRED), so no offer is
\* counted by both.
C37_SweepCountsAddUp ==
    (\A c \in Callers : sw[c].pc = "done")
    => sw[1].result + sw[2].result
         = Cardinality({o \in DOMAIN offers : offers[o].status = "EXPIRED"})

----------------------------------------------------------------------------
(* Monotonicity of the move score *)

\* query q2 is query q1 with argument k raised and the others as they were
RaisedIn(k, q1, q2) ==
    /\ q2[k] > q1[k]
    /\ \A j \in 1..4 : j # k => q2[j] = q1[j]

\* C38: of two evaluations of calculate_move_score_heuristic that differ in
\* one argument, the one with the higher candidate value or the more days
\* until the appointment scores no lower, and the one with the higher
\* current value or the higher patient LTV scores no higher. The arguments
\* are (current_value, new_value, patient_ltv, days_until_appointment).
C38_ScoreMonotone ==
    [][ (ret.op = "score" /\ ret'.op = "score") =>
          /\ RaisedIn(2, ret.query, ret'.query) => ret'.slots[1] >= ret.slots[1]
          /\ RaisedIn(4, ret.query, ret'.query) => ret'.slots[1] >= ret.slots[1]
          /\ RaisedIn(1, ret.query, ret'.query) => ret'.slots[1] <= ret.slots[1]
          /\ RaisedIn(3, ret.query, ret'.query) => ret'.slots[1] <= ret.slots[1] ]_vars

\* an evaluation for a patient with LTV that scores strictly between the
\* bounds and strictly lower than the same evaluation without LTV
C38_Witness ==
    /\ ret.op = "score"
    /\ ret.query[3] = 500
    /\ ret.slots[1] > 0
    /\ ret.slots[1] < 100
    /\ ret.slots[1] < CalculateMoveScoreHeuristic(ret.query[1], ret.query[2], 0,
                                                  ret.query[4])[1]

=============================================================================
